---------------------------- MODULE Spec2Model ----------------------------
(***************************************************************************)
(* Model of the website-intelligence service: the Authorization check      *)
(* (utils/security.py), the homepage scraper (processing/web_scraper.py),  *)
(* and the /analyze and /chat handlers (agent_server.py) with the LLM      *)
(* calls they make (processing/ai_analyzer.py).                            *)
(*                                                                         *)
(* Text is a sequence of one-character strings.  The three regular         *)
(* expressions of the scraper are written as syntax trees and run by a     *)
(* backtracking matcher that yields the matches in the priority order of   *)
(* Python's re module (greedy quantifiers, leftmost alternative first).    *)
(***************************************************************************)
EXTENDS Integers, Sequences, FiniteSets, TLC

(***************************************************************************)
(* Characters and character classes.                                       *)
(***************************************************************************)
LowerSeq ==
  <<"a","b","c","d","e","f","g","h","i","j","k","l","m",
    "n","o","p","q","r","s","t","u","v","w","x","y","z">>

UpperSeq ==
  <<"A","B","C","D","E","F","G","H","I","J","K","L","M",
    "N","O","P","Q","R","S","T","U","V","W","X","Y","Z">>

Range(s) == {s[i] : i \in DOMAIN s}

Lower == Range(LowerSeq)

Upper == Range(UpperSeq)

Letter == Lower \cup Upper

Digit == {"0","1","2","3","4","5","6","7","8","9"}

AlNum == Letter \cup Digit

\* str.strip() and bs4's strip=True remove these; \s of the phone pattern
Whitespace == {" ", "\n", "\t"}

\* the two spellings of a letter (re.I), the character itself otherwise
BothCases(c) ==
  IF \E i \in DOMAIN LowerSeq : c \in {LowerSeq[i], UpperSeq[i]}
    THEN LET i == CHOOSE j \in DOMAIN LowerSeq : c \in {LowerSeq[j], UpperSeq[j]}
         IN  {LowerSeq[i], UpperSeq[i]}
    ELSE {c}

(***************************************************************************)
(* String operations of the Python code.                                   *)
(***************************************************************************)
RECURSIVE LStrip(_)
LStrip(s) ==
  IF s # <<>> /\ Head(s) \in Whitespace THEN LStrip(Tail(s)) ELSE s

RECURSIVE RStrip(_)
RStrip(s) ==
  IF s # <<>> /\ s[Len(s)] \in Whitespace
    THEN RStrip(SubSeq(s, 1, Len(s) - 1))
    ELSE s

\* str.strip()
Strip(s) == RStrip(LStrip(s))

\* s[:n]
Prefix(s, n) == SubSeq(s, 1, IF Len(s) < n THEN Len(s) ELSE n)

\* s.startswith(p)
StartsWith(s, p) == Len(s) >= Len(p) /\ SubSeq(s, 1, Len(p)) = p

\* a function on 1..n, evaluated into the tuple it equals
Tuple(f) == f \o <<>>

RECURSIVE Flatten(_)
\* the concatenation of a sequence of sequences
Flatten(ss) == IF ss = <<>> THEN <<>> ELSE Head(ss) \o Flatten(Tail(ss))

RECURSIVE Join(_, _)
\* sep.join(ss)
Join(ss, sep) ==
  IF ss = <<>> THEN <<>>
  ELSE IF Len(ss) = 1 THEN ss[1]
  ELSE ss[1] \o sep \o Join(Tail(ss), sep)

SetMin(S) == CHOOSE x \in S : \A y \in S : x <= y

(***************************************************************************)
(* The backtracking matcher.  A pattern is a syntax tree:                  *)
(*   [k |-> "set", s]           one character of the class s               *)
(*   [k |-> "rep", s, lo, hi]   greedy repetition of the class s, lo..hi   *)
(*                              times (hi = -1: no upper limit)            *)
(*   [k |-> "opt", r]           r?  (greedy: r is tried before skipping)   *)
(*   [k |-> "grp", r]           capturing group 1                          *)
(*   [k |-> "alt", a]           a[1] | a[2] | ...                          *)
(*   [k |-> "seq", a]           a[1] a[2] ...                              *)
(* Ends(re, t, p) is the sequence of ways re matches t from position p, in *)
(* the order the backtracking engine tries them: e is the position after   *)
(* the match, g the span <<from, to>> of group 1 (NoGroup when the group   *)
(* took no part in the match).                                             *)
(***************************************************************************)
NoGroup == <<0, 0>>

Set(S) == [k |-> "set", s |-> S]

Rep(S, lo, hi) == [k |-> "rep", s |-> S, lo |-> lo, hi |-> hi]

Opt(r) == [k |-> "opt", r |-> r]

Grp(r) == [k |-> "grp", r |-> r]

Alt(a) == [k |-> "alt", a |-> a]

Cat(a) == [k |-> "seq", a |-> a]

\* a literal string
Lit(chars) == Cat(Tuple([i \in DOMAIN chars |-> Set({chars[i]})]))

\* a literal string under re.I
LitI(chars) == Cat(Tuple([i \in DOMAIN chars |-> Set(BothCases(chars[i]))]))

RECURSIVE RunLen(_, _, _, _)
\* how many characters of class S follow from position p, at most max
RunLen(S, t, p, max) ==
  IF max = 0 \/ p > Len(t) \/ t[p] \notin S
    THEN 0
    ELSE 1 + RunLen(S, t, p + 1, max - 1)

RECURSIVE Ends(_, _, _)
RECURSIVE EndsSeq(_, _, _, _)
Ends(re, t, p) ==
  CASE re.k = "set" ->
         IF p <= Len(t) /\ t[p] \in re.s
           THEN <<[e |-> p + 1, g |-> NoGroup]>>
           ELSE <<>>
    [] re.k = "rep" ->
         LET m == RunLen(re.s, t, p, IF re.hi < 0 THEN Len(t) ELSE re.hi)
         IN  IF m < re.lo
               THEN <<>>
               ELSE Tuple([i \in 1..(m - re.lo + 1) |->
                             [e |-> p + m - (i - 1), g |-> NoGroup]])
    [] re.k = "opt" -> Ends(re.r, t, p) \o <<[e |-> p, g |-> NoGroup]>>
    [] re.k = "grp" ->
         LET rs == Ends(re.r, t, p)
         IN  Tuple([i \in DOMAIN rs |-> [e |-> rs[i].e, g |-> <<p, rs[i].e>>]])
    [] re.k = "alt" ->
         Flatten(Tuple([i \in DOMAIN re.a |-> Ends(re.a[i], t, p)]))
    [] re.k = "seq" -> EndsSeq(re.a, 1, t, p)

EndsSeq(a, i, t, p) ==
  IF i > Len(a)
    THEN <<[e |-> p, g |-> NoGroup]>>
    ELSE LET first == Ends(a[i], t, p)
         IN  Flatten(Tuple([j \in DOMAIN first |->
               LET rest == EndsSeq(a, i + 1, t, first[j].e)
               IN  Tuple([n \in DOMAIN rest |->
                     [e |-> rest[n].e,
                      g |-> IF rest[n].g # NoGroup
                              THEN rest[n].g
                              ELSE first[j].g]])]))

RECURSIVE Nullable(_)
\* re can match the empty string
Nullable(re) ==
  CASE re.k = "set" -> FALSE
    [] re.k = "rep" -> re.lo = 0
    [] re.k = "opt" -> TRUE
    [] re.k = "grp" -> Nullable(re.r)
    [] re.k = "alt" -> \E i \in DOMAIN re.a : Nullable(re.a[i])
    [] re.k = "seq" -> \A i \in DOMAIN re.a : Nullable(re.a[i])

RECURSIVE First(_)
\* the characters a non-empty match of re can begin with
First(re) ==
  CASE re.k \in {"set", "rep"} -> re.s
    [] re.k \in {"opt", "grp"} -> First(re.r)
    [] re.k = "alt" -> UNION {First(re.a[i]) : i \in DOMAIN re.a}
    [] re.k = "seq" ->
         UNION {First(re.a[i]) :
                  i \in {n \in DOMAIN re.a :
                           \A j \in 1..(n - 1) : Nullable(re.a[j])}}

\* the positions of t at which re matches; the engine need not try a
\* position whose character no match can begin with
MatchStarts(re, t) ==
  LET first == First(re)
      nullable == Nullable(re)
  IN  {s \in 1..Len(t) : (nullable \/ t[s] \in first) /\ Ends(re, t, s) # <<>>}

\* the match the engine reports at start s: its first way to match
MatchAt(re, t, s) ==
  LET m == Ends(re, t, s)[1] IN [s |-> s, e |-> m.e, g |-> m.g]

\* the text of a match, and of its group 1 ('' when the group is unmatched)
MatchText(t, m) == SubSeq(t, m.s, m.e - 1)

GroupText(t, m) == IF m.g = NoGroup THEN <<>> ELSE SubSeq(t, m.g[1], m.g[2] - 1)

RECURSIVE Scan(_, _, _, _)
\* the non-overlapping matches from position pos on, left to right
Scan(re, t, starts, pos) ==
  LET cand == {s \in starts : s >= pos}
  IN  IF cand = {}
        THEN <<>>
        ELSE LET m == MatchAt(re, t, SetMin(cand))
             IN  <<m>> \o Scan(re, t, starts, m.e)

RECURSIVE HasGroup(_)
HasGroup(re) ==
  CASE re.k \in {"set", "rep"} -> FALSE
    [] re.k = "grp" -> TRUE
    [] re.k = "opt" -> HasGroup(re.r)
    [] re.k \in {"alt", "seq"} -> \E i \in DOMAIN re.a : HasGroup(re.a[i])

\* re.findall(re, t): the list of the matches' texts when the pattern has no
\* group, and the list of the texts of group 1 when it has one
FindAll(re, t) ==
  LET ms == Scan(re, t, MatchStarts(re, t), 1)
  IN  Tuple([i \in DOMAIN ms |->
        IF HasGroup(re) THEN GroupText(t, ms[i]) ELSE MatchText(t, ms[i])])

\* Search reporting the rightmost match instead of the leftmost
Search_Rightmost(re, t) ==
  LET starts == MatchStarts(re, t)
  IN  IF starts = {}
        THEN [s |-> 0, e |-> 0, g |-> NoGroup]
        ELSE MatchAt(re, t, CHOOSE x \in starts : \A y \in starts : x >= y)

\* re.search(re, t): the leftmost match, or NoMatch
NoMatch == [s |-> 0, e |-> 0, g |-> NoGroup]

Search(re, t) ==
  LET starts == MatchStarts(re, t)
  IN  IF starts = {} THEN NoMatch ELSE MatchAt(re, t, SetMin(starts))

(***************************************************************************)
(* The patterns of web_scraper.py.                                         *)
(***************************************************************************)
\* [a-zA-Z0-9._%+-]+@[a-zA-Z0-9.-]+\.[a-zA-Z]{2,}
email_pattern ==
  Cat(<<Rep(AlNum \cup {".", "_", "%", "+", "-"}, 1, -1),
        Set({"@"}),
        Rep(AlNum \cup {".", "-"}, 1, -1),
        Set({"."}),
        Rep(Letter, 2, -1)>>)

\* [\s.-]
PhoneSep == Whitespace \cup {".", "-"}

\* (\(?\+?\d{1,3}\)?[\s.-]?)?\(?\d{3}\)?[\s.-]?\d{3}[\s.-]?\d{4}
phone_pattern ==
  Cat(<<Opt(Grp(Cat(<<Opt(Set({"("})), Opt(Set({"+"})), Rep(Digit, 1, 3),
                      Opt(Set({")"})), Opt(Set(PhoneSep))>>))),
        Opt(Set({"("})), Rep(Digit, 3, 3), Opt(Set({")"})),
        Opt(Set(PhoneSep)), Rep(Digit, 3, 3),
        Opt(Set(PhoneSep)), Rep(Digit, 4, 4)>>)

Platforms == <<"linkedin", "twitter", "facebook", "instagram">>

\* the per-platform tails of social_patterns, under re.I
social_patterns(platform) ==
  CASE platform = "linkedin" ->
         <<LitI(<<"l","i","n","k","e","d","i","n">>), Set({"."}),
           LitI(<<"c","o","m">>), Set({"/"}),
           LitI(<<"c","o","m","p","a","n","y">>), Set({"/"}),
           Rep(AlNum \cup {"_", "-"}, 1, -1)>>
    [] platform = "twitter" ->
         <<Alt(<<LitI(<<"t","w","i","t","t","e","r">>), LitI(<<"x">>)>>),
           Set({"."}), LitI(<<"c","o","m">>), Set({"/"}),
           Rep(AlNum \cup {"_"}, 1, -1)>>
    [] platform = "facebook" ->
         <<LitI(<<"f","a","c","e","b","o","o","k">>), Set({"."}),
           LitI(<<"c","o","m">>), Set({"/"}),
           Rep(AlNum \cup {"_", ".", "-"}, 1, -1)>>
    [] platform = "instagram" ->
         <<LitI(<<"i","n","s","t","a","g","r","a","m">>), Set({"."}),
           LitI(<<"c","o","m">>), Set({"/"}),
           Rep(AlNum \cup {"_", "."}, 1, -1)>>

\* f'https?://(www\.)?{pattern}' with re.I; the match is read by group(0)
SocialPattern(platform) ==
  Cat(<<LitI(<<"h","t","t","p">>), Opt(Set(BothCases("s"))),
        Lit(<<":", "/", "/">>),
        Opt(Cat(<<LitI(<<"w","w","w">>), Set({"."})>>))>>
      \o social_patterns(platform))

(***************************************************************************)
(* The parsed document.  lxml and BeautifulSoup are libraries; the model   *)
(* takes the tree they build as the input and renders response.text from   *)
(* it.  A document is                                                      *)
(*   title : [present, kids]  the title element and the text of each of    *)
(*                            its children                                 *)
(*   meta  : [present, content]  the meta description element              *)
(*   body  : whether the tree has a body element                           *)
(*   nodes : the elements under body in document order, each with its tag, *)
(*           class and href attributes, its own text, and the index of its *)
(*           parent element (0: a child of body)                           *)
(***************************************************************************)
TagMain == <<"m","a","i","n">>

TagArticle == <<"a","r","t","i","c","l","e">>

TagDiv == <<"d","i","v">>

TagSection == <<"s","e","c","t","i","o","n">>

TagP == <<"p">>

TagA == <<"a">>

TagScript == <<"s","c","r","i","p","t">>

TagStyle == <<"s","t","y","l","e">>

TagNav == <<"n","a","v">>

TagFooter == <<"f","o","o","t","e","r">>

TagHeader == <<"h","e","a","d","e","r">>

TagAside == <<"a","s","i","d","e">>

TagForm == <<"f","o","r","m">>

\* soup.find_all([...]) of the cleaning step
DecomposedTags ==
  {TagScript, TagStyle, TagNav, TagFooter, TagHeader, TagAside, TagForm}

Node(tag, cls, href, text, parent) ==
  [tag |-> tag, cls |-> cls, href |-> href, text |-> text, parent |-> parent]

Indices(seq) == Tuple([i \in 1..Len(seq) |-> i])

\* response.text: the markup the tree was parsed from
RECURSIVE RenderNode(_, _)
RenderNode(nodes, i) ==
  LET n == nodes[i]
      kids == SelectSeq(Indices(nodes), LAMBDA j : nodes[j].parent = i)
  IN  <<"<">> \o n.tag
      \o (IF n.cls = <<>> THEN <<>>
          ELSE <<" ","c","l","a","s","s","=","\"">> \o n.cls \o <<"\"">>)
      \o (IF n.href = <<>> THEN <<>>
          ELSE <<" ","h","r","e","f","=","\"">> \o n.href \o <<"\"">>)
      \o <<">">> \o n.text
      \o Flatten(Tuple([k \in DOMAIN kids |-> RenderNode(nodes, kids[k])]))
      \o <<"<","/">> \o n.tag \o <<">">>

RenderHtml(doc) ==
  LET top == SelectSeq(Indices(doc.nodes), LAMBDA j : doc.nodes[j].parent = 0)
  IN  (IF doc.title.present
         THEN <<"<","t","i","t","l","e",">">> \o Flatten(doc.title.kids)
              \o <<"<","/","t","i","t","l","e",">">>
         ELSE <<>>)
      \o (IF doc.meta.present
            THEN <<"<","m","e","t","a"," ","n","a","m","e","=","\"",
                   "d","e","s","c","r","i","p","t","i","o","n","\""," ",
                   "c","o","n","t","e","n","t","=","\"">>
                 \o doc.meta.content \o <<"\"",">">>
            ELSE <<>>)
      \o (IF doc.body THEN <<"<","b","o","d","y",">">> ELSE <<>>)
      \o Flatten(Tuple([k \in DOMAIN top |-> RenderNode(doc.nodes, top[k])]))
      \o (IF doc.body THEN <<"<","/","b","o","d","y",">">> ELSE <<>>)

(***************************************************************************)
(* scrape_homepage_content, after the response has arrived.                *)
(***************************************************************************)
MAX_LLM_CONTENT_LENGTH == 16000

\* soup.title.string.strip() if soup.title else '': .string is the only
\* child's text, and None (so that .strip() raises AttributeError) when the
\* title has no child or several
ExtractTitle(doc) ==
  IF ~doc.title.present THEN [raised |-> FALSE, v |-> <<>>]
  ELSE IF Len(doc.title.kids) # 1 THEN [raised |-> TRUE, v |-> <<>>]
  ELSE [raised |-> FALSE, v |-> Strip(doc.title.kids[1])]

\* meta_desc_tag.get('content', '').strip() if meta_desc_tag else ''
ExtractDescription(doc) ==
  IF doc.meta.present THEN Strip(doc.meta.content) ELSE <<>>

RECURSIVE Decomposed(_, _)
\* tag.decompose() removes the element and everything under it
Decomposed(nodes, i) ==
  \/ nodes[i].tag \in DecomposedTags
  \/ nodes[i].parent # 0 /\ Decomposed(nodes, nodes[i].parent)

\* the elements left in the tree after the cleaning loop, in document order
Cleaned(doc) ==
  SelectSeq(Indices(doc.nodes), LAMBDA i : ~Decomposed(doc.nodes, i))

\* re.compile(r'content|main|post', re.I)
class_pattern ==
  Alt(<<LitI(<<"c","o","n","t","e","n","t">>), LitI(<<"m","a","i","n">>),
        LitI(<<"p","o","s","t">>)>>)

\* soup.find(...): the first element left that passes the test, NoTag if none
NoTag == -1

BodyTag == 0

FirstOf(hits) == IF hits = <<>> THEN NoTag ELSE hits[1]

FindTag(doc, tag) ==
  FirstOf(SelectSeq(Cleaned(doc), LAMBDA i : doc.nodes[i].tag = tag))

FindDivByClass(doc) ==
  FirstOf(SelectSeq(Cleaned(doc),
            LAMBDA i : /\ doc.nodes[i].tag = TagDiv
                       /\ Search(class_pattern, doc.nodes[i].cls) # NoMatch))

\* soup.find('main') or soup.find('article') or soup.find('div', class_=...)
\* or soup.body
main_content_tag(doc) ==
  IF FindTag(doc, TagMain) # NoTag THEN FindTag(doc, TagMain)
  ELSE IF FindTag(doc, TagArticle) # NoTag THEN FindTag(doc, TagArticle)
  ELSE IF FindDivByClass(doc) # NoTag THEN FindDivByClass(doc)
  ELSE IF doc.body THEN BodyTag
  ELSE NoTag

RECURSIVE Under(_, _, _)
\* element i is root or lies under it
Under(nodes, i, root) ==
  \/ root = BodyTag
  \/ i = root
  \/ nodes[i].parent # 0 /\ Under(nodes, nodes[i].parent, root)

\* tag.get_text(separator='\n', strip=True)
GetTextStripped(doc, root) ==
  LET in == SelectSeq(Cleaned(doc), LAMBDA i : Under(doc.nodes, i, root))
      strs == Tuple([k \in DOMAIN in |-> Strip(doc.nodes[in[k]].text)])
  IN  Join(SelectSeq(strs, LAMBDA x : x # <<>>), <<"\n">>)

RECURSIVE Replace(_, _, _, _, _)
\* the text from pos on with the matches ms[i..] replaced by repl
Replace(t, ms, i, pos, repl) ==
  IF i > Len(ms)
    THEN SubSeq(t, pos, Len(t))
    ELSE SubSeq(t, pos, ms[i].s - 1) \o repl
         \o Replace(t, ms, i + 1, ms[i].e, repl)

\* re.sub(r'\n{3,}', '\n\n', t)
CollapseNewlines(t) ==
  LET re == Rep({"\n"}, 3, -1)
  IN  Replace(t, Scan(re, t, MatchStarts(re, t), 1), 1, 1, <<"\n", "\n">>)

\* lines 50-55
ExtractMainContent(doc) ==
  IF main_content_tag(doc) # NoTag
    THEN CollapseNewlines(GetTextStripped(doc, main_content_tag(doc)))
    ELSE <<>>

\* soup.get_text(), called after the cleaning loop
BodyText(doc) ==
  LET in == Cleaned(doc)
  IN  Flatten(doc.title.kids)
      \o Flatten(Tuple([k \in DOMAIN in |-> doc.nodes[in[k]].text]))

\* the process's hash seed (PYTHONHASHSEED, drawn at random when the
\* interpreter starts): it fixes the hashes of the strings, and with them
\* the order in which a set of strings is iterated
HashSeeds == 0..1

RECURSIVE Dedup(_)
\* the distinct entries of xs, by first occurrence
Dedup(xs) ==
  IF xs = <<>>
    THEN <<>>
    ELSE LET front == Dedup(SubSeq(xs, 1, Len(xs) - 1))
         IN  IF xs[Len(xs)] \in Range(front)
               THEN front ELSE Append(front, xs[Len(xs)])

RECURSIVE IterationOrder(_, _)
\* the order in which a set with the entries l is iterated under the seed:
\* the seed, read as a number in the factorial base, names one arrangement
IterationOrder(l, seed) ==
  IF l = <<>>
    THEN <<>>
    ELSE LET k == (seed % Len(l)) + 1
         IN  <<l[k]>>
             \o IterationOrder(SubSeq(l, 1, k - 1) \o SubSeq(l, k + 1, Len(l)),
                               seed \div Len(l))

\* ListOfSet without the set: list(xs)
ListOfSet_NoSet(xs, seed) == xs

\* list(set(xs)): the distinct entries, in the order the set iterates them
ListOfSet(xs, seed) == IterationOrder(Dedup(xs), seed)

RECURSIVE SocialLoop(_, _, _)
\* the loop over social_patterns.items(), from the i-th platform on
SocialLoop(html, i, links) ==
  IF i > Len(Platforms)
    THEN links
    ELSE LET platform == Platforms[i]
             match == Search(SocialPattern(platform), html)
         IN  SocialLoop(html, i + 1,
               IF match # NoMatch /\ platform \notin DOMAIN links
                 THEN links @@ (platform :> MatchText(html, match))
                 ELSE links)

NoLinks == [p \in {} |-> <<>>]

ExtractSocialLinks(html) == SocialLoop(html, 1, NoLinks)

\* the outcomes of scrape_homepage_content: a page, or one of its two raises
FETCH_FAILED == "Failed to fetch the URL. The website may be down or blocking requests."

UNEXPECTED == "An unexpected error occurred while processing the website's content."

NoPage ==
  [main_content |-> <<>>,
   metadata |-> [title |-> <<>>, description |-> <<>>],
   contact_info |-> [emails |-> <<>>, phones |-> <<>>, social_links |-> NoLinks]]

Returned(page) == [kind |-> "page", detail |-> "", page |-> page]

Raised(detail) == [kind |-> "error", detail |-> detail, page |-> NoPage]

\* ReturnedPage without the [:MAX_LLM_CONTENT_LENGTH] slice
ReturnedPage_NoSlice(main_content, title, description, emails, phones, social_links) ==
  [main_content |-> main_content,
   metadata |-> [title |-> title, description |-> description],
   contact_info |-> [emails |-> emails, phones |-> phones,
                     social_links |-> social_links]]

\* lines 84-96: the returned dict
ReturnedPage(main_content, title, description, emails, phones, social_links) ==
  [main_content |-> Prefix(main_content, MAX_LLM_CONTENT_LENGTH),
   metadata |-> [title |-> title, description |-> description],
   contact_info |-> [emails |-> emails, phones |-> phones,
                     social_links |-> social_links]]

\* lines 32-96: what the try block yields for a parsed document, in a
\* process with the given hash seed
ScrapeDocument(doc, seed) ==
  IF ExtractTitle(doc).raised
    THEN Raised(UNEXPECTED)
    ELSE LET body_text == BodyText(doc)
             found_emails == FindAll(email_pattern, body_text)
             found_phones == FindAll(phone_pattern, body_text)
         IN  Returned(
               ReturnedPage(ExtractMainContent(doc), ExtractTitle(doc).v,
                            ExtractDescription(doc),
                            ListOfSet(found_emails, seed),
                            ListOfSet(found_phones, seed),
                            ExtractSocialLinks(RenderHtml(doc))))

(***************************************************************************)
(* The documents the sites serve.  Bodies are all sequences of at most     *)
(* MaxNodes elements of NodeKinds under body, next to hand-written         *)
(* documents with nesting, with the title variants, and one whose          *)
(* main text is longer than MAX_LLM_CONTENT_LENGTH.                        *)
(***************************************************************************)
MaxNodes == 2

TextEmail == <<" ","a","@","b",".","c","o"," ">>

TextMain == <<"W","e"," ","s","e","l","l","."," ","a","@","b",".","c","o">>

TextPhone == <<"C","a","l","l"," ","5","5","5","-","1","2","3","-","4","5","6","7"," ">>

TextPhoneCc ==
  <<"+","1"," ","5","5","5"," ","1","2","3"," ","4","5","6","7",
    "\n","\n","\n","\n","O","p","e","n"," ","9","-","5">>

TextFooter ==
  <<" ","c","@","d",".","i","o"," ","5","5","5",".","9","8","7",".",
    "6","5","4","3"," ">>

TextBlank == <<" ","\n"," ">>

TextTitle == <<" ","A","c","m","e"," ","C","o","\n">>

TextDescription == <<" ","W","i","d","g","e","t","s"," ">>

UrlX == <<"h","t","t","p","s",":","/","/","x",".","c","o","m","/","a","c","m","e">>

UrlTwitter ==
  <<"h","t","t","p",":","/","/","t","w","i","t","t","e","r",".","c","o","m",
    "/","o","l","d">>

UrlLinkedIn ==
  <<"H","T","T","P","S",":","/","/","w","w","w",".","L","i","n","k","e","d",
    "I","n",".","c","o","m","/","c","o","m","p","a","n","y","/","a","c","m",
    "e","-","c","o">>

NodeKinds ==
  {Node(TagMain, <<>>, <<>>, TextMain, 0),
   Node(TagP, <<>>, <<>>, TextPhone, 0),
   Node(TagDiv, <<"P","o","s","t">>, <<>>, TextPhoneCc, 0),
   Node(TagFooter, <<>>, <<>>, TextFooter, 0),
   Node(TagA, <<>>, UrlX, TextEmail, 0),
   Node(TagNav, <<>>, UrlLinkedIn, TextBlank, 0),
   Node(TagA, <<>>, UrlTwitter, TextBlank, 0)}

Bodies == UNION {[1..n -> NodeKinds] : n \in 0..MaxNodes}

NoTitle == [present |-> FALSE, kids |-> <<>>]

Title(kids) == [present |-> TRUE, kids |-> kids]

NoMeta == [present |-> FALSE, content |-> <<>>]

Meta(content) == [present |-> TRUE, content |-> content]

Document(title, meta, nodes) ==
  [title |-> title, meta |-> meta, body |-> TRUE, nodes |-> nodes]

\* the empty response: no title, no body
EmptyDocument ==
  [title |-> NoTitle, meta |-> NoMeta, body |-> FALSE, nodes |-> <<>>]

Titles ==
  {NoTitle, Title(<<>>), Title(<<TextTitle>>), Title(<<TextTitle, TextBlank>>)}

ClassMainContent == <<"M","a","i","n","-","c","o","n","t","e","n","t">>

ClassContentBox == <<"c","o","n","t","e","n","t","-","b","o","x">>

\* the same address three times; an address and a number only inside a footer
\* that lies inside main; a main element inside a header; two addresses in
\* running text; a section with a content class next to a paragraph; a div
\* with a content class before an article before a main element
NestedBodies ==
  {<<Node(TagP, <<>>, <<>>, TextEmail, 0), Node(TagP, <<>>, <<>>, TextEmail, 0),
     Node(TagP, <<>>, <<>>, TextEmail, 0)>>,
   <<Node(TagMain, <<>>, <<>>, TextMain, 0),
     Node(TagFooter, <<>>, <<>>, TextFooter, 1),
     Node(TagA, <<>>, UrlLinkedIn, TextPhone, 2)>>,
   <<Node(TagHeader, <<>>, <<>>, TextBlank, 0),
     Node(TagMain, <<>>, <<>>, TextMain, 1),
     Node(TagArticle, <<>>, UrlTwitter, TextPhoneCc, 0),
     Node(TagA, <<>>, UrlX, TextBlank, 3)>>,
   <<Node(TagP, <<>>, <<>>, TextEmail, 0),
     Node(TagDiv, <<>>, <<>>, TextFooter, 0)>>,
   <<Node(TagP, <<>>, <<>>, TextPhone, 0),
     Node(TagSection, ClassMainContent, <<>>, TextMain, 0)>>,
   <<Node(TagDiv, ClassContentBox, <<>>, TextPhoneCc, 0),
     Node(TagArticle, <<>>, <<>>, TextEmail, 0),
     Node(TagMain, <<>>, <<>>, TextMain, 0)>>}

\* LongText(n): n characters of running text
LongText(n) == Tuple([i \in 1..n |-> "#"])

LongBodies ==
  {<<Node(TagMain, <<>>, <<>>, LongText(MAX_LLM_CONTENT_LENGTH + 1), 0)>>,
   <<Node(TagArticle, <<>>, <<>>, LongText(MAX_LLM_CONTENT_LENGTH), 0),
     Node(TagP, <<>>, <<>>, TextPhone, 1)>>}

Documents ==
  {Document(Title(<<TextTitle>>), NoMeta, b) : b \in Bodies}
  \cup {Document(t, Meta(TextDescription), b) : t \in Titles, b \in NestedBodies}
  \cup {Document(NoTitle, NoMeta, b) : b \in LongBodies}
  \cup {EmptyDocument}

\* the scraper's outcomes for every document, computed once
ScrapeTable ==
  [doc \in Documents |-> [seed \in HashSeeds |-> ScrapeDocument(doc, seed)]]

\* lines 28-30 and 98-103: the response of the one GET decides the outcome.
\* httpx.RequestError (line 98) covers what keeps the request from
\* completing; the HTTPStatusError of raise_for_status (line 30) is not a
\* RequestError and is caught by line 101
scrape_homepage_content(response, seed) ==
  CASE response.kind = "request_error" -> Raised(FETCH_FAILED)
    [] response.kind = "bad_status" -> Raised(UNEXPECTED)
    [] response.kind = "ok" -> ScrapeTable[response.doc][seed]

(***************************************************************************)
(* utils/security.py                                                       *)
(***************************************************************************)
APP_SECRET_KEY == <<"s","3","k">>

BearerPrefix == <<"B","e","a","r","e","r"," ">>

\* the Authorization header: absent (None), or its value
NoHeader == [present |-> FALSE, value |-> <<>>]

Header(value) == [present |-> TRUE, value |-> value]

RECURSIVE Split(_, _)
\* s.split(sep) for a one-character sep
Split(s, sep) ==
  LET cuts == {i \in DOMAIN s : s[i] = sep}
  IN  IF cuts = {}
        THEN <<s>>
        ELSE <<SubSeq(s, 1, SetMin(cuts) - 1)>>
             \o Split(SubSeq(s, SetMin(cuts) + 1, Len(s)), sep)

\* get_api_key: TRUE when the token is returned, FALSE when it raises 401
get_api_key(api_key) ==
  IF ~api_key.present \/ api_key.value = <<>> THEN FALSE
  ELSE IF ~StartsWith(api_key.value, BearerPrefix) THEN FALSE
  ELSE Split(api_key.value, " ")[2] = APP_SECRET_KEY

(***************************************************************************)
(* The requests.                                                           *)
(***************************************************************************)
Headers ==
  {NoHeader,
   Header(<<>>),
   Header(APP_SECRET_KEY),
   Header(<<"b","e","a","r","e","r"," ">> \o APP_SECRET_KEY),
   Header(BearerPrefix),
   Header(BearerPrefix \o <<"x">>),
   Header(BearerPrefix \o APP_SECRET_KEY \o <<"x">>),
   Header(BearerPrefix \o <<" ">> \o APP_SECRET_KEY),
   Header(BearerPrefix \o APP_SECRET_KEY),
   Header(BearerPrefix \o APP_SECRET_KEY \o <<" ","x">>)}

\* AnalysisRequest.questions (None and [] alike run no question)
QuestionLists ==
  {<<>>, <<"q1">>, <<"q1", "q2">>, <<"q2", "q1">>, <<"q1", "q1">>}

\* ChatRequest.conversation_history, a list of ConversationTurn objects
Histories == {<<>>, <<[user_query |-> "q0", agent_response |-> "a0"]>>}

Requests ==
  {[endpoint |-> "/analyze", authorization |-> h, questions |-> q,
    query |-> "", conversation_history |-> <<>>] :
      h \in Headers, q \in QuestionLists}
  \cup
  {[endpoint |-> "/chat", authorization |-> h, questions |-> <<>>,
    query |-> "q", conversation_history |-> c] :
      h \in Headers, c \in Histories}

\* what the one GET can come to: the request does not complete, the site
\* answers with a 4xx/5xx status, or it answers 2xx with a document
Responses ==
  {[kind |-> "request_error", doc |-> EmptyDocument],
   [kind |-> "bad_status", doc |-> EmptyDocument]}
  \cup {[kind |-> "ok", doc |-> d] : d \in Documents}

NoResponse == [kind |-> "none", doc |-> EmptyDocument]

NotScraped == [kind |-> "none", detail |-> "", page |-> NoPage]

\* Optional[str]
None == [some |-> FALSE, v |-> <<>>]

Some(v) == [some |-> TRUE, v |-> v]

NoContact == [email |-> None, phone |-> None, social_media |-> NoLinks]

NoReply ==
  [status |-> 0, contact_info |-> NoContact, extracted_answers |-> <<>>,
   agent_response |-> ""]

Failure(status) == [NoReply EXCEPT !.status = status]

(***************************************************************************)
(* One request through the service.                                        *)
(*   hashSeed  the hash seed of the process serving the requests           *)
(*   pc        where the request is                                        *)
(*   request   the request being served                                    *)
(*   response  what the GET of scrape_homepage_content came to             *)
(*   getCount  the GETs issued for the request                             *)
(*   scraped   what scrape_homepage_content returned or raised             *)
(*   llmCalls  the calls of _generate_llm_response for the request         *)
(*   llmLog    the messages of each of these calls, and whether it         *)
(*             returned (ok) or raised                                     *)
(*   company   the company_info under construction (valid: whether the     *)
(*             LLM's fields pass CompanyInfo's validation)                 *)
(*   answers   extracted_answers under construction                        *)
(*   reply     the HTTP reply (status 0: none yet)                         *)
(***************************************************************************)
VARIABLES hashSeed, pc, request, response, getCount, scraped, llmCalls,
          llmLog, company, answers, reply

vars ==
  <<hashSeed, pc, request, response, getCount, scraped, llmCalls, llmLog,
    company, answers, reply>>

NoRequest ==
  [endpoint |-> "", authorization |-> NoHeader, questions |-> <<>>,
   query |-> "", conversation_history |-> <<>>]

NoCompany == [valid |-> FALSE, contact_info |-> NoContact]

Init ==
  /\ hashSeed \in HashSeeds
  /\ pc = "idle"
  /\ request = NoRequest
  /\ response = NoResponse
  /\ getCount = 0
  /\ scraped = NotScraped
  /\ llmCalls = 0
  /\ llmLog = <<>>
  /\ company = NoCompany
  /\ answers = <<>>
  /\ reply = NoReply

\* a request arrives at /analyze or /chat
Receive ==
  /\ pc = "idle"
  /\ \E r \in Requests : request' = r
  /\ pc' = "auth"
  /\ UNCHANGED <<hashSeed, response, getCount, scraped, llmCalls, llmLog,
                 company, answers, reply>>

\* Depends(get_api_key): 401 unless the key is returned
Authenticate ==
  /\ pc = "auth"
  /\ IF get_api_key(request.authorization)
       THEN pc' = "limit" /\ reply' = reply
       ELSE pc' = "done" /\ reply' = Failure(401)
  /\ UNCHANGED <<hashSeed, request, response, getCount, scraped, llmCalls,
                 llmLog, company, answers>>

\* Depends(RateLimiter(...)): the limiter, kept in Redis, lets the request
\* through or answers 429
RateLimit ==
  /\ pc = "limit"
  /\ \E allowed \in BOOLEAN :
       IF allowed
         THEN pc' = "handler" /\ reply' = reply
         ELSE pc' = "done" /\ reply' = Failure(429)
  /\ UNCHANGED <<hashSeed, request, response, getCount, scraped, llmCalls,
                 llmLog, company, answers>>

\* Fetch with a retry: a GET that does not complete is issued once more
Fetch_Retry ==
  /\ pc = "handler"
  /\ \E r \in Responses :
       IF r.kind = "request_error"
         THEN /\ \E again \in Responses : response' = again
              /\ getCount' = getCount + 2
         ELSE /\ response' = r
              /\ getCount' = getCount + 1
  /\ pc' = "fetched"
  /\ UNCHANGED <<hashSeed, request, scraped, llmCalls, llmLog, company,
                 answers, reply>>

\* response = await client.get(url): the one GET of the scraper
Fetch ==
  /\ pc = "handler"
  /\ \E r \in Responses : response' = r
  /\ getCount' = getCount + 1
  /\ pc' = "fetched"
  /\ UNCHANGED <<hashSeed, request, scraped, llmCalls, llmLog, company,
                 answers, reply>>

\* the rest of scrape_homepage_content: it returns the page or raises
Scrape ==
  /\ pc = "fetched"
  /\ scraped' = scrape_homepage_content(response, hashSeed)
  /\ pc' = "scraped"
  /\ UNCHANGED <<hashSeed, request, response, getCount, llmCalls, llmLog,
                 company, answers, reply>>

\* not scraped_data.get('main_content') or not scraped_data['main_content'].strip()
EmptyContent(page) ==
  page.main_content = <<>> \/ Strip(page.main_content) = <<>>

\* CheckContent without the except HTTPException clause: the 404 raised in
\* the try block is caught by except Exception and becomes 502
CheckContent_NoReraise ==
  /\ pc = "scraped"
  /\ IF scraped.kind = "error" \/ EmptyContent(scraped.page)
       THEN pc' = "done" /\ reply' = Failure(502)
       ELSE /\ pc' = IF request.endpoint = "/analyze" THEN "analyze" ELSE "chat"
            /\ reply' = reply
  /\ UNCHANGED <<hashSeed, request, response, getCount, scraped, llmCalls,
                 llmLog, company, answers>>

\* the handlers after the scraper: an exception of the scraper becomes 502
\* (except Exception), empty content becomes 404 (re-raised as it is by
\* except HTTPException), otherwise the LLM part runs
CheckContent ==
  /\ pc = "scraped"
  /\ IF scraped.kind = "error"
       THEN pc' = "done" /\ reply' = Failure(502)
       ELSE IF EmptyContent(scraped.page)
         THEN pc' = "done" /\ reply' = Failure(404)
         ELSE /\ pc' = IF request.endpoint = "/analyze" THEN "analyze" ELSE "chat"
              /\ reply' = reply
  /\ UNCHANGED <<hashSeed, request, response, getCount, scraped, llmCalls,
                 llmLog, company, answers>>

\* what a call of _generate_llm_response(json_mode=True) can come to: it
\* raises; its text is no JSON object; its JSON fails CompanyInfo's
\* validation; its JSON is as asked
CompanyOutcomes == {"error", "invalid_json", "invalid_fields", "ok"}

\* lines 135-139 of ai_analyzer.py
ContactInfo(contact_info) ==
  [email |-> IF contact_info.emails # <<>>
               THEN Some(contact_info.emails[1]) ELSE None,
   phone |-> IF contact_info.phones # <<>>
               THEN Some(contact_info.phones[1]) ELSE None,
   social_media |-> contact_info.social_links]

\* an entry of the messages list; the content is kept as its parts, the
\* fixed texts by their names in the code
Message(role, content) == [role |-> role, content |-> content]

\* lines 106-108 and 170-172: the text built from the scraped page, by name
context_text == "context_text"

\* lines 111-114
analysis_messages ==
  <<Message("system", <<"ANALYSIS_SYSTEM_PROMPT">>),
    Message("user", <<context_text>>)>>

\* lines 148-152
qa_messages(question) ==
  <<Message("system", <<"qa_system_prompt">>),
    Message("user", <<"Context:", context_text, "Question:", question>>)>>

\* lines 174-182, when no history is added
chat_messages(query) ==
  <<Message("system", <<"system_prompt">>),
    Message("system", <<"Website Content Context:", context_text>>),
    Message("user", <<"User's Latest Query:", query>>)>>

\* a call of _generate_llm_response as the log keeps it
LlmCall(messages, ok) == [messages |-> messages, ok |-> ok]

\* analyze_content_with_llm, part 1 and 2: the company-info call
AnalyzeCompany ==
  /\ pc = "analyze"
  /\ llmCalls' = llmCalls + 1
  /\ \E outcome \in CompanyOutcomes :
       /\ llmLog' = Append(llmLog, LlmCall(analysis_messages, outcome # "error"))
       /\ IF outcome \in {"error", "invalid_json"}
            THEN /\ pc' = "done"
                 /\ reply' = Failure(502)
                 /\ company' = company
            ELSE /\ pc' = "questions"
                 /\ reply' = reply
                 /\ company' =
                      [valid |-> outcome = "ok",
                       contact_info |-> ContactInfo(scraped.page.contact_info)]
  /\ UNCHANGED <<hashSeed, request, response, getCount, scraped, answers>>

\* AnswerQuestion with the except clause of line 156 left out: a call that
\* raises ends analyze_content_with_llm, and the handler answers 502
AnswerQuestion_Abort ==
  /\ pc = "questions"
  /\ Len(answers) < Len(request.questions)
  /\ llmCalls' = llmCalls + 1
  /\ LET question == request.questions[Len(answers) + 1]
     IN  \E answered \in BOOLEAN :
           /\ llmLog' = Append(llmLog, LlmCall(qa_messages(question), answered))
           /\ IF answered
                THEN /\ answers' = Append(answers, [question |-> question,
                                                    answer |-> "answer"])
                     /\ pc' = pc
                     /\ reply' = reply
                ELSE /\ answers' = answers
                     /\ pc' = "done"
                     /\ reply' = Failure(502)
  /\ UNCHANGED <<hashSeed, request, response, getCount, scraped, company>>

\* one turn of the loop over custom_questions: the call answers or raises
AnswerQuestion ==
  /\ pc = "questions"
  /\ Len(answers) < Len(request.questions)
  /\ llmCalls' = llmCalls + 1
  /\ LET question == request.questions[Len(answers) + 1]
     IN  \E answered \in BOOLEAN :
           /\ llmLog' = Append(llmLog, LlmCall(qa_messages(question), answered))
           /\ answers' = Append(answers,
                [question |-> question,
                 answer |-> IF answered
                              THEN "answer" ELSE "Error generating answer"])
  /\ UNCHANGED <<hashSeed, pc, request, response, getCount, scraped, company,
                 reply>>

\* the loop is over: analyze_content_with_llm returns and analyze_website
\* builds the AnalysisResponse (a validation error becomes 502)
AnalyzeRespond ==
  /\ pc = "questions"
  /\ Len(answers) = Len(request.questions)
  /\ pc' = "done"
  /\ reply' = IF company.valid
                THEN [status |-> 200, contact_info |-> company.contact_info,
                      extracted_answers |-> answers, agent_response |-> ""]
                ELSE Failure(502)
  /\ UNCHANGED <<hashSeed, request, response, getCount, scraped, llmCalls,
                 llmLog, company, answers>>

\* answer_follow_up_question: turn.get(...) on a ConversationTurn raises
\* AttributeError before any call when there is history; otherwise the one
\* call answers or raises
answer_follow_up_question ==
  /\ pc = "chat"
  /\ pc' = "done"
  /\ IF request.conversation_history # <<>>
       THEN /\ llmCalls' = llmCalls
            /\ llmLog' = llmLog
            /\ reply' = Failure(502)
       ELSE /\ llmCalls' = llmCalls + 1
            /\ \E answered \in BOOLEAN :
                 /\ llmLog' = Append(llmLog,
                      LlmCall(chat_messages(request.query), answered))
                 /\ reply' = IF answered
                               THEN [NoReply EXCEPT !.status = 200,
                                                    !.agent_response = "answer"]
                               ELSE Failure(502)
  /\ UNCHANGED <<hashSeed, request, response, getCount, scraped, company,
                 answers>>

\* the reply is sent; the next request is served from a fresh state
Finish ==
  /\ pc = "done"
  /\ pc' = "idle"
  /\ request' = NoRequest
  /\ response' = NoResponse
  /\ getCount' = 0
  /\ scraped' = NotScraped
  /\ llmCalls' = 0
  /\ llmLog' = <<>>
  /\ company' = NoCompany
  /\ answers' = <<>>
  /\ reply' = NoReply
  /\ UNCHANGED hashSeed

Next ==
  \/ Receive
  \/ Authenticate
  \/ RateLimit
  \/ Fetch
  \/ Scrape
  \/ CheckContent
  \/ AnalyzeCompany
  \/ AnswerQuestion
  \/ AnalyzeRespond
  \/ answer_follow_up_question
  \/ Finish

Spec == Init /\ [][Next]_vars

(***************************************************************************)
(* The claims.                                                             *)
(***************************************************************************)
ExactHeader == Header(BearerPrefix \o APP_SECRET_KEY)

\* the position is inside the handler: the scraper or the LLM part has begun
InPipeline ==
  pc \in {"handler", "fetched", "scraped", "analyze", "questions", "chat"}

Distinct(l) == \A i, j \in DOMAIN l : i # j => l[i] # l[j]

\* the text of the whole tree, as soup.get_text() gives it before the
\* cleaning loop has removed anything
FullText(doc) ==
  Flatten(doc.title.kids)
  \o Flatten(Tuple([k \in DOMAIN doc.nodes |-> doc.nodes[k].text]))

\* the texts of the matches of re in t, whole
WholeMatches(re, t) ==
  LET ms == Scan(re, t, MatchStarts(re, t), 1)
  IN  {MatchText(t, ms[i]) : i \in DOMAIN ms}

\* C1: a GET that cannot complete is not repeated (there is never more than
\* one GET for a request), the scraper raises the fetch error and returns no
\* page, the handler answers 502, and the LLM is never called.
C1_FetchFailureIs502 ==
  /\ getCount <= 1
  /\ response.kind = "request_error" =>
       /\ getCount = 1
       /\ llmCalls = 0
       /\ pc # "fetched" => scraped = Raised(FETCH_FAILED)
       /\ pc = "done" => reply.status = 502

C1_Witness ==
  /\ pc = "done"
  /\ response.kind = "request_error"
  /\ scraped.kind = "error"
  /\ reply.status = 502
  /\ request.endpoint = "/chat"

\* C2: a response with a 4xx/5xx status makes the scraper raise the same
\* error as a request that cannot complete.
C2_BadStatusIsFetchError ==
  (pc = "scraped" /\ response.kind = "bad_status")
    => scraped = Raised(FETCH_FAILED)

\* C3: when the scraper returns a page whose main_content is empty or only
\* whitespace, the LLM is not called, the request never enters the LLM part,
\* and the reply is 404 (not 502).
C3_EmptyContentIs404 ==
  (scraped.kind = "page" /\ Strip(scraped.page.main_content) = <<>>)
    => /\ llmCalls = 0
       /\ pc \notin {"analyze", "questions", "chat"}
       /\ pc = "done" => reply.status = 404

C3_Witness ==
  /\ pc = "done"
  /\ reply.status = 404
  /\ scraped.kind = "page"
  /\ scraped.page.main_content = <<>>
  /\ \E i \in DOMAIN response.doc.nodes :
       /\ ~Decomposed(response.doc.nodes, i)
       /\ response.doc.nodes[i].text # <<>>

\* C4: a request is inside the handler only if its Authorization header is
\* exactly "Bearer " followed by the secret; with any other header it ends
\* with 401, no GET and no LLM call.
C4_OnlyExactBearerPasses ==
  request.authorization # ExactHeader
    => /\ ~InPipeline
       /\ getCount = 0
       /\ llmCalls = 0
       /\ pc = "done" => reply.status = 401

\* C5: the main_content of a returned page is at most 16000 characters long.
C5_MainContentBounded ==
  scraped.kind = "page"
    => Len(scraped.page.main_content) <= MAX_LLM_CONTENT_LENGTH

C5_Witness ==
  /\ scraped.kind = "page"
  /\ Len(scraped.page.main_content) = MAX_LLM_CONTENT_LENGTH
  /\ \E i \in DOMAIN response.doc.nodes :
       /\ response.doc.nodes[i].tag = TagMain
       /\ Len(Strip(response.doc.nodes[i].text)) > MAX_LLM_CONTENT_LENGTH

\* C6: for every document fetched, the scraper returns a page; its title is
\* the trimmed text of the title element, empty when the element has no
\* text or is absent.
C6_TitleNeverFails ==
  (pc = "scraped" /\ response.kind = "ok")
    => /\ scraped.kind = "page"
       /\ scraped.page.metadata.title =
            IF response.doc.title.present
              THEN Strip(Flatten(response.doc.title.kids))
              ELSE <<>>

\* C7: every email address of the whole document, the removed regions
\* included, is in contact_info.emails, and phones is not empty when the
\* whole document holds a phone number.
C7_ContactsFromFullText ==
  (pc = "scraped" /\ scraped.kind = "page")
    => /\ WholeMatches(email_pattern, FullText(response.doc))
            \subseteq Range(scraped.page.contact_info.emails)
       /\ WholeMatches(phone_pattern, FullText(response.doc)) # {}
            => scraped.page.contact_info.phones # <<>>

\* C8: the entries of contact_info.phones are the whole texts of the phone
\* numbers matched in the text searched, and the phone of the analysis is
\* one of them.
C8_PhonesAreWholeNumbers ==
  (pc \in {"scraped", "questions"} /\ scraped.kind = "page")
    => LET numbers == WholeMatches(phone_pattern, BodyText(response.doc))
       IN  /\ Range(scraped.page.contact_info.phones) = numbers
           /\ (pc = "questions" /\ numbers # {})
                => /\ company.contact_info.phone.some
                   /\ company.contact_info.phone.v \in numbers

\* C9: emails and phones of a returned page hold no entry twice.
C9_NoDuplicates ==
  scraped.kind = "page"
    => /\ Distinct(scraped.page.contact_info.emails)
       /\ Distinct(scraped.page.contact_info.phones)

C9_Witness ==
  /\ pc = "scraped"
  /\ scraped.kind = "page"
  /\ Len(scraped.page.contact_info.emails) = 1
  /\ Len(response.doc.nodes) = 3
  /\ LET found == FindAll(email_pattern, BodyText(response.doc))
     IN  Len(found) = 3 /\ found[1] = found[2] /\ found[2] = found[3]

\* for every document and platform: whether the platform's pattern matches
\* anywhere in the raw HTML, and the match at the leftmost such place
LeftmostMatch ==
  [doc \in Documents |->
    [p \in {"linkedin", "twitter", "facebook", "instagram"} |->
      LET html == RenderHtml(doc)
          re == SocialPattern(p)
          at == {s \in 1..Len(html) : Ends(re, html, s) # <<>>}
      IN  IF at = {}
            THEN [found |-> FALSE, url |-> <<>>]
            ELSE [found |-> TRUE,
                  url |-> MatchText(html, MatchAt(re, html, SetMin(at)))]]]

\* C10: social_links of a returned page has keys among the four platforms
\* only; a platform is a key exactly when its pattern matches somewhere in
\* the raw HTML, and its URL is then the match at the leftmost such place.
C10_SocialLinksFirstMatch ==
  (pc = "scraped" /\ scraped.kind = "page")
    => LET links == scraped.page.contact_info.social_links
           leftmost == LeftmostMatch[response.doc]
       IN  /\ DOMAIN links \subseteq {"linkedin", "twitter", "facebook", "instagram"}
           /\ \A p \in {"linkedin", "twitter", "facebook", "instagram"} :
                IF leftmost[p].found
                  THEN p \in DOMAIN links /\ links[p] = leftmost[p].url
                  ELSE p \notin DOMAIN links

C10_Witness ==
  /\ pc = "scraped"
  /\ scraped.kind = "page"
  /\ DOMAIN scraped.page.contact_info.social_links = {"twitter"}
  /\ scraped.page.contact_info.social_links["twitter"] = UrlX
  /\ Cardinality(MatchStarts(SocialPattern("twitter"),
                             RenderHtml(response.doc))) = 2

\* C11: the page a run returns for a document is the page every run on
\* that document returns, in whichever process of the service it runs: the
\* same emails and phones in the same order, and so the same first entries.
C11_SamePageOnEveryRun ==
  (pc = "scraped" /\ response.kind = "ok")
    => \A seed \in HashSeeds : scrape_homepage_content(response, seed) = scraped

\* the text of the prior turns, as line 179 is written to build it
ExpectedHistory(history) ==
  Flatten(Tuple([i \in DOMAIN history |->
            <<"User:", history[i].user_query,
              "AI:", history[i].agent_response>>]))

\* C12: a /chat request with prior turns whose page has content calls the
\* LLM once, with messages that hold the prior turns before the latest
\* query, and when the call returns the reply is 200 with its answer.
C12_ChatWithHistoryAnswers ==
  (/\ pc = "done"
   /\ request.endpoint = "/chat"
   /\ request.conversation_history # <<>>
   /\ scraped.kind = "page"
   /\ ~EmptyContent(scraped.page))
    => /\ Len(llmLog) = 1
       /\ LET messages == llmLog[1].messages
          IN  /\ messages[Len(messages)] =
                   Message("user", <<"User's Latest Query:", request.query>>)
              /\ \E i \in 1..(Len(messages) - 1) :
                   messages[i] =
                     Message("system",
                             <<"Conversation History:">>
                             \o ExpectedHistory(request.conversation_history))
       /\ llmLog[1].ok
            => reply.status = 200 /\ reply.agent_response = "answer"

\* the element the priority order names among those left after the cleaning:
\* main, else article, else the first element of any tag whose class holds
\* content, main or post, else the body
PriorityTag(doc) ==
  LET left == Cleaned(doc)
      byClass == SelectSeq(left,
                   LAMBDA i : Search(class_pattern, doc.nodes[i].cls) # NoMatch)
  IN  IF FindTag(doc, TagMain) # NoTag THEN FindTag(doc, TagMain)
      ELSE IF FindTag(doc, TagArticle) # NoTag THEN FindTag(doc, TagArticle)
      ELSE IF byClass # <<>> THEN byClass[1]
      ELSE IF doc.body THEN BodyTag
      ELSE NoTag

\* C13: the main_content of a returned page is the text of the element the
\* priority order names (main, article, an element of any tag with a content
\* class, body), cut to the length limit.
C13_MainContentByPriority ==
  (pc = "scraped" /\ scraped.kind = "page")
    => LET doc == response.doc
           tag == PriorityTag(doc)
       IN  scraped.page.main_content =
             IF tag = NoTag
               THEN <<>>
               ELSE Prefix(CollapseNewlines(GetTextStripped(doc, tag)),
                           MAX_LLM_CONTENT_LENGTH)

\* C14: while the questions are answered, the answers so far are one per
\* question asked so far, in the order given, each with its own question
\* and with the text of its own call (the error text exactly when that call
\* raised); the loop ends only when every question has its answer, a call
\* that raises does not end the request, and a reply of 200 carries these
\* answers unchanged.
C14_OneAnswerPerQuestion ==
  [][pc = "questions"
       => /\ Len(answers) <= Len(request.questions)
          /\ Len(llmLog) = Len(answers) + 1
          /\ \A i \in DOMAIN answers :
               /\ answers[i].question = request.questions[i]
               /\ llmLog[i + 1].messages[2].content[4] = request.questions[i]
               /\ answers[i].answer =
                    IF llmLog[i + 1].ok
                      THEN "answer" ELSE "Error generating answer"
          /\ pc' = "questions"
               => /\ Len(answers') = Len(answers) + 1
                  /\ SubSeq(answers', 1, Len(answers)) = answers
          /\ pc' # "questions"
               => /\ pc' = "done"
                  /\ Len(answers) = Len(request.questions)
                  /\ answers' = answers
                  /\ company.valid
                       => /\ reply'.status = 200
                          /\ reply'.extracted_answers = answers]_vars

C14_Witness ==
  /\ pc = "done"
  /\ reply.status = 200
  /\ request.questions = <<"q1", "q2">>
  /\ ~llmLog[2].ok
  /\ llmLog[3].ok
  /\ reply.extracted_answers =
       <<[question |-> "q1", answer |-> "Error generating answer"],
         [question |-> "q2", answer |-> "answer"]>>

=============================================================================
